---- MODULE Spec2Model ----
(***************************************************************************)
(* A model of src/game.js: the Player, Enemy, ExpOrb and Chest classes and *)
(* the Game driver (gameLoop/update, spawning, level-up and skill          *)
(* selection, chest rewards, gameOver/restart) together with the browser's *)
(* timer queue (setTimeout/setInterval) and requestAnimationFrame chains.  *)
(*                                                                         *)
(* Units.  Time is counted in ticks of 1/20 s, so the frame clamp of 0.1 s *)
(* is 2 ticks and a frame's deltaTime is 0, 1 or 2 ticks.  The player's hp *)
(* is counted in tenths (damage * (1 - defenseRate) is a multiple of 0.1), *)
(* defenseRate in tenths, speedBuff in tenths, experience in thirds (an    *)
(* orb is worth enemy.exp / 3), enemy hp, weaponDamage, speed and          *)
(* rotateSpeed in hundredths.                                              *)
(*                                                                         *)
(* Geometry.  In the specification Spec positions are not tracked: every   *)
(* circleCollision / distance test of Game.update is an input of the frame *)
(* (FrameInputs).  Player.update's movement and arena clamp are modelled    *)
(* with coordinates in the specification SpecMove, on a grid of cells of   *)
(* Grid pixels.  Particles are cosmetic (nothing reads them) and are left  *)
(* out.                                                                    *)
(***************************************************************************)
EXTENDS Integers, Sequences, FiniteSets, TLC

VARIABLES
    game,      \* the Game object's fields (this.state, this.player, ...)
    timers,    \* the browser's pending setTimeout/setInterval callbacks
    dom,       \* the modals and skill cards the code shows and hides
    loops,     \* number of live requestAnimationFrame chains of gameLoop
    kin,       \* the player's kinematic fields (x, y, targetX, targetY)
    ghost,     \* history variables used to state the properties
    unit       \* the object exercised by the unit-level specifications

vars == <<game, timers, dom, loops, kin, ghost, unit>>

-----------------------------------------------------------------------------
(* Scales and program constants *)

TicksPerSecond == 20
HpScale == 10
ExpScale == 3
Cent == 100

MaxDeltaTime == 2
InvincibleTime == 10
PlayerStartHp == 100
ExpToLevel == 100
BossAttackDelay == 10
BossAttackDamage == 15
BossAttackInterval == 5
SpeedBurstDelay == 200
SkillCountdownStart == 3
SkillCountdownInterval == 20
MinionWavePeriod == 10
ElitePeriod == 30
ChestPeriod == 45
BossLevel == 10
BossTime == 120
VictoryBonus == 50
OrbsPerKill == 3
MaxWeapons == 8
WeaponSize == 8           \* the radius of a weapon in the collision test
AutoCollectTime == 30

Min(a, b) == IF a < b THEN a ELSE b
Max(a, b) == IF a > b THEN a ELSE b

-----------------------------------------------------------------------------
(* Player *)

NewPlayer ==
    [ hp |-> PlayerStartHp * HpScale, maxHp |-> PlayerStartHp * HpScale,
      speed |-> 100 * Cent, level |-> 1, exp |-> 0,
      expToLevel |-> ExpToLevel * ExpScale,
      weaponCount |-> 2, weaponDamage |-> 10 * Cent, weaponRadius |-> 80,
      rotateSpeed |-> 120 * Cent, defenseRate |-> 0,
      autoCollectBuff |-> 0, speedBuff |-> 10, invincible |-> 0,
      weaponType |-> 0 ]

\* Player.update, lines 253-265: the buff and invincibility countdowns.
PlayerUpdateTimers(p, dt) ==
    [p EXCEPT
        !.autoCollectBuff = IF p.autoCollectBuff > 0 THEN p.autoCollectBuff - dt
                            ELSE p.autoCollectBuff,
        !.invincible = IF p.invincible > 0 THEN p.invincible - dt
                       ELSE p.invincible]

\* Mutant of PlayerTakeDamage: the invincibility guard is dropped.
PlayerTakeDamageNoGuard(p, damage) ==
    LET actual == Max(1 * HpScale, damage * (10 - p.defenseRate))
        hp2 == p.hp - actual
    IN  [p EXCEPT !.hp = IF hp2 < 0 THEN 0 ELSE hp2,
                  !.invincible = InvincibleTime]

\* Mutant of PlayerTakeDamage: hp is not floored at 0.
PlayerTakeDamageNoFloor(p, damage) ==
    IF p.invincible > 0 THEN p
    ELSE [p EXCEPT !.hp = p.hp - Max(1 * HpScale, damage * (10 - p.defenseRate)),
                   !.invincible = InvincibleTime]

\* Player.takeDamage: damage is in whole hp; damage * (1 - defenseRate) in
\* tenths of hp is damage * (10 - defenseRate).
PlayerTakeDamage(p, damage) ==
    IF p.invincible > 0 THEN p
    ELSE LET actual == Max(1 * HpScale, damage * (10 - p.defenseRate))
             hp2 == p.hp - actual
         IN  [p EXCEPT !.hp = IF hp2 < 0 THEN 0 ELSE hp2,
                       !.invincible = InvincibleTime]

PlayerGainExp(p, amount) == [p EXCEPT !.exp = p.exp + amount]

PlayerCanLevelUp(p) == p.exp >= p.expToLevel

\* Mutant of PlayerLevelUp: every level the experience pays for is taken.
PlayerLevelUpAll(p) ==
    [p EXCEPT !.exp = p.exp % p.expToLevel,
              !.level = p.level + (p.exp \div p.expToLevel)]

\* Player.checkLevelUp, the branch taken when it returns true.
PlayerLevelUp(p) == [p EXCEPT !.exp = p.exp - p.expToLevel, !.level = p.level + 1]

\* Player.checkLevelUp: the player after the call and the value returned.
PlayerCheckLevelUp(p) ==
    [ player |-> IF PlayerCanLevelUp(p) THEN PlayerLevelUp(p) ELSE p,
      returned |-> PlayerCanLevelUp(p) ]

PlayerHeal(p, amount) == [p EXCEPT !.hp = Min(p.maxHp, p.hp + amount * HpScale)]

-----------------------------------------------------------------------------
(* Enemy *)

EnemyTypes == {"minion", "elite", "boss"}

EnemyConfig(type) ==
    CASE type = "minion" -> [hp |-> 20, damage |-> 5, exp |-> 5, radius |-> 15]
      [] type = "elite"  -> [hp |-> 80, damage |-> 10, exp |-> 20, radius |-> 18]
      [] type = "boss"   -> [hp |-> 300, damage |-> 15, exp |-> 100, radius |-> 40]

NewEnemy(type) ==
    [ type |-> type, hp |-> EnemyConfig(type).hp * Cent,
      maxHp |-> EnemyConfig(type).hp * Cent,
      damage |-> EnemyConfig(type).damage, exp |-> EnemyConfig(type).exp,
      radius |-> EnemyConfig(type).radius,
      isDead |-> FALSE, slowEffect |-> 0, attackCooldown |-> 0 ]

\* Enemy.update without the movement: the slow countdown and the boss cooldown.
EnemyUpdate(en, dt) ==
    IF en.isDead THEN en
    ELSE [en EXCEPT
            !.slowEffect = IF en.slowEffect > 0 THEN en.slowEffect - dt
                           ELSE en.slowEffect,
            !.attackCooldown = IF en.type = "boss" THEN en.attackCooldown - dt
                               ELSE en.attackCooldown]

\* Mutant of EnemyTakeDamage: hp is not reset to 0 on death.
EnemyTakeDamageNoReset(en, damage) ==
    [en EXCEPT !.hp = en.hp - damage, !.isDead = en.hp - damage <= 0]

\* Mutant of EnemyTakeDamage: an enemy brought to exactly 0 hp stays alive.
EnemyTakeDamageBelowZero(en, damage) ==
    IF en.hp - damage < 0 THEN [en EXCEPT !.hp = 0, !.isDead = TRUE]
    ELSE [en EXCEPT !.hp = en.hp - damage]

EnemyTakeDamage(en, damage) ==
    IF en.hp - damage <= 0 THEN [en EXCEPT !.hp = 0, !.isDead = TRUE]
    ELSE [en EXCEPT !.hp = en.hp - damage]

EnemyCanAttack(en) == en.type = "boss" /\ en.attackCooldown <= 0

\* Mutant of EnemyPerformAttack: the cooldown is not reset.
EnemyPerformAttackNoReset(en) == en

EnemyPerformAttack(en) ==
    [en EXCEPT !.attackCooldown = BossAttackInterval * TicksPerSecond]

-----------------------------------------------------------------------------
(* Pickups, skills and rewards *)

\* credits is a history field: how often the orb's value was added to
\* player.exp (capped at 2).
NewExpOrb(value) == [value |-> value, collected |-> FALSE, credits |-> 0]

NewChest == [isOpen |-> FALSE, collected |-> FALSE]

\* Chest.getRandomReward: the ids of the reward catalog.
RewardIds ==
    {"weapon_supply", "sharp_upgrade", "auto_collect", "speed_burst", "weapon_swap"}

\* Game.getRandomSkills: the ids of the skill catalog.
SkillIds ==
    {"add_weapon", "damage_boost", "radius_expand", "rotate_faster", "hp_boost",
     "speed_boost", "defense_up", "emergency_heal", "exp_magnet"}

\* Game.getRandomSkills(3): shuffle and slice, any three distinct entries.
AllSkillDraws ==
    {s \in [1..3 -> SkillIds] : s[1] # s[2] /\ s[1] # s[3] /\ s[2] # s[3]}

RECURSIVE SumOrbValues(_)
SumOrbValues(orbs) ==
    IF orbs = <<>> THEN 0 ELSE Head(orbs).value + SumOrbValues(Tail(orbs))

\* Mutant of ApplySkill: speed_boost is not capped.
ApplySkillSpeedUncapped(g, id) ==
    CASE id = "add_weapon" ->
            [g EXCEPT !.player.weaponCount = Min(MaxWeapons, @ + 1)]
      [] id = "damage_boost" ->
            [g EXCEPT !.player.weaponDamage = (@ * 11) \div 10]
      [] id = "radius_expand" ->
            [g EXCEPT !.player.weaponRadius = Min(150, @ + 10)]
      [] id = "rotate_faster" ->
            [g EXCEPT !.player.rotateSpeed = (@ * 125) \div 100]
      [] id = "hp_boost" ->
            [g EXCEPT !.player.maxHp = @ + 20 * HpScale,
                      !.player.hp = @ + 20 * HpScale]
      [] id = "speed_boost" ->
            [g EXCEPT !.player.speed = (@ * 105) \div 100]
      [] id = "defense_up" ->
            [g EXCEPT !.player.defenseRate = Min(5, @ + 1)]
      [] id = "emergency_heal" ->
            [g EXCEPT !.player = PlayerHeal(@, 40)]
      [] id = "exp_magnet" ->
            [g EXCEPT
                !.expOrbs = [i \in 1..Len(@) |->
                                [@[i] EXCEPT !.collected = TRUE,
                                             !.credits = Min(@ + 1, 2)]],
                !.player = PlayerGainExp(@, SumOrbValues(g.expOrbs))]

\* Game.applySkill on the game record.
ApplySkill(g, id) ==
    CASE id = "add_weapon" ->
            [g EXCEPT !.player.weaponCount = Min(MaxWeapons, @ + 1)]
      [] id = "damage_boost" ->
            [g EXCEPT !.player.weaponDamage = (@ * 11) \div 10]
      [] id = "radius_expand" ->
            [g EXCEPT !.player.weaponRadius = Min(150, @ + 10)]
      [] id = "rotate_faster" ->
            [g EXCEPT !.player.rotateSpeed = (@ * 125) \div 100]
      [] id = "hp_boost" ->
            [g EXCEPT !.player.maxHp = @ + 20 * HpScale,
                      !.player.hp = @ + 20 * HpScale]
      [] id = "speed_boost" ->
            [g EXCEPT !.player.speed = Min(200 * Cent, (@ * 105) \div 100)]
      [] id = "defense_up" ->
            [g EXCEPT !.player.defenseRate = Min(5, @ + 1)]
      [] id = "emergency_heal" ->
            [g EXCEPT !.player = PlayerHeal(@, 40)]
      [] id = "exp_magnet" ->
            [g EXCEPT
                !.expOrbs = [i \in 1..Len(@) |->
                                [@[i] EXCEPT !.collected = TRUE,
                                             !.credits = Min(@ + 1, 2)]],
                !.player = PlayerGainExp(@, SumOrbValues(g.expOrbs))]

-----------------------------------------------------------------------------
(* The browser's timer queue.  Every entry has the same fields; session and *)
(* event are history fields: the session (number of init() calls) in which  *)
(* the timer was created and the level-up event it belongs to.              *)

NoSkills == <<>>

BossAttackTimer(session) ==
    [ kind |-> "boss", remaining |-> BossAttackDelay, countdown |-> 0,
      skills |-> NoSkills, event |-> 0, session |-> session ]

SpeedBurstTimer(session) ==
    [ kind |-> "speed", remaining |-> SpeedBurstDelay, countdown |-> 0,
      skills |-> NoSkills, event |-> 0, session |-> session ]

SkillCountdownTimer(session, skills, event) ==
    [ kind |-> "skill", remaining |-> SkillCountdownInterval,
      countdown |-> SkillCountdownStart, skills |-> skills, event |-> event,
      session |-> session ]

RemoveAt(seq, i) == SubSeq(seq, 1, i - 1) \o SubSeq(seq, i + 1, Len(seq))

\* Wall-clock time e passes for every pending timer.
TimersElapse(tm, e) ==
    [i \in 1..Len(tm) |-> [tm[i] EXCEPT !.remaining = Max(0, @ - e)]]

TimerDue(tm) == \E i \in 1..Len(tm) : tm[i].remaining = 0

-----------------------------------------------------------------------------
(* Game.  The operators below act on a "world" record                       *)
(*   w = [game, timers, dom, ghost]                                         *)
(* so that one handler can be composed of the calls it makes.               *)

\* Game.init, lines 777-795: the fields it (re)sets.
InitGame ==
    [ state |-> "playing", player |-> NewPlayer,
      enemies |-> <<>>, expOrbs |-> <<>>, chests |-> <<>>,
      score |-> 0, killCount |-> 0, survivalTime |-> 0,
      enemySpawnTimer |-> 0, eliteSpawnTimer |-> 0, chestSpawnTimer |-> 0,
      bossSpawned |-> FALSE, bossAlive |-> FALSE ]

InitDom ==
    [ skillModal |-> FALSE, cards |-> NoSkills, cardsEvent |-> 0,
      gameOverModal |-> FALSE, outcome |-> "none" ]

\* History of one session; applied and the counters are kept across sessions
\* only where a property needs them.
InitGhost ==
    [ session |-> 1,          \* number of init() calls so far
      frames |-> 0,           \* rendered frames so far
      restarts |-> 0,
      bossSpawns |-> 0,       \* spawnBoss calls in this session
      bossChecks |-> 0,       \* updates of this session whose boss condition held (capped)
      applied |-> <<>>,       \* per level-up event: skills applied for it
      hitTaken |-> FALSE,     \* the current player has taken a successful hit
      sinceHit |-> 0,         \* simulated ticks since that hit (capped)
      graceBroken |-> FALSE,  \* a takeDamage call inside the grace window changed the player
      graceTested |-> FALSE,  \* takeDamage was called inside the current grace window
      updatesInFrame |-> 0,   \* update() calls made by the last rendered frame
      staleMutation |-> FALSE, \* a timer of an earlier session changed this one
      deaths |-> 0,           \* enemies of this session whose isDead turned true
      deadAttack |-> FALSE,   \* an enemy started its attack after its isDead was set
      reports |-> 0,          \* gameOver calls of this session (capped)
      victory |-> FALSE       \* gameOver(true) was called in this session
    ]

\* Game.gameOver, with the history of the outcomes reported in this session.
GameOver(w, victory) ==
    [w EXCEPT !.game.state = "gameover",
              !.dom.gameOverModal = TRUE,
              !.dom.outcome = IF victory THEN "victory" ELSE "defeat",
              !.ghost.reports = Min(@ + 1, 2),
              !.ghost.victory = @ \/ victory]

\* this.player.takeDamage(damage) with the history of the grace window.
DamagePlayer(w, damage) ==
    LET p2 == PlayerTakeDamage(w.game.player, damage)
        changed == p2 # w.game.player
        inWindow == w.ghost.hitTaken /\ w.ghost.sinceHit < InvincibleTime
    IN  [w EXCEPT
            !.game.player = p2,
            !.ghost.graceBroken = @ \/ (inWindow /\ changed),
            !.ghost.graceTested = IF inWindow THEN TRUE ELSE IF changed THEN FALSE ELSE @,
            !.ghost.hitTaken = @ \/ changed,
            !.ghost.sinceHit = IF changed /\ ~inWindow THEN 0 ELSE @]

\* Game.killEnemy (the particle burst is left out)
KillEnemy(w, en) ==
    LET orb == NewExpOrb((en.exp * ExpScale) \div OrbsPerKill)
        w1 == [w EXCEPT !.game.killCount = @ + 1,
                        !.game.expOrbs = @ \o <<orb, orb, orb>>]
    IN  IF en.type = "boss"
        THEN GameOver([w1 EXCEPT !.game.bossAlive = FALSE,
                                 !.game.score = @ + VictoryBonus], TRUE)
        ELSE w1

\* History: enemy i is alive and the next weapon hit is its last.
DiesNow(w, i) ==
    /\ ~w.game.enemies[i].isDead
    /\ EnemyTakeDamage(w.game.enemies[i], w.game.player.weaponDamage).isDead

\* Game.update, lines 899-905: one weapon overlaps enemy i.
WeaponHit(w, i) ==
    LET en2 == EnemyTakeDamage(w.game.enemies[i], w.game.player.weaponDamage)
        w1 == [w EXCEPT !.game.enemies[i] = en2,
                        !.ghost.deaths = IF DiesNow(w, i) THEN @ + 1 ELSE @]
    IN  IF en2.isDead THEN KillEnemy(w1, en2) ELSE w1

\* Game.update, lines 896-906: n weapons overlap enemy i, in turn.
RECURSIVE WeaponHits(_, _, _)
WeaponHits(w, i, n) ==
    IF n = 0 THEN w ELSE WeaponHits(WeaponHit(w, i), i, n - 1)

\* 1000 * sin(180 / n degrees), rounded down: half the chord between two
\* neighbours of n weapons evenly spread on a circle of radius 1000.
HalfChord(n) ==
    CASE n = 1 -> 0
      [] n = 2 -> 1000
      [] n = 3 -> 866
      [] n = 4 -> 707
      [] n = 5 -> 587
      [] n = 6 -> 500
      [] n = 7 -> 433
      [] n = 8 -> 382

\* Player.getWeaponPositions and line 898: the most weapons that can overlap
\* one enemy at once.  Two neighbouring weapons both lie within
\* WeaponSize + radius of the enemy's centre for some position of the enemy
\* exactly when half their chord is shorter than that; three never do.
WeaponsInReach(p, en) ==
    IF p.weaponCount >= 2
       /\ p.weaponRadius * (HalfChord(p.weaponCount) + 1) < (WeaponSize + en.radius) * 1000
    THEN 2 ELSE 1

\* Lines 897-906: of the player's weapons, hits overlap enemy i.
WeaponLoop(w, i, hits) ==
    WeaponHits(w, i, Min(hits, WeaponsInReach(w.game.player, w.game.enemies[i])))

\* Lines 889-893: enemy i overlaps the player.
EnemyContact(w, i, contact) ==
    IF contact THEN DamagePlayer(w, w.game.enemies[i].damage) ELSE w

\* Lines 909-919: the boss's area attack is announced and its timer set.
EnemyAttack(w, i) ==
    IF EnemyCanAttack(w.game.enemies[i])
    THEN [w EXCEPT !.game.enemies[i] = EnemyPerformAttack(@),
                   !.timers = Append(@, BossAttackTimer(w.ghost.session)),
                   !.ghost.deadAttack = @ \/ w.game.enemies[i].isDead]
    ELSE w

\* Game.update, lines 884-920: the body of enemies.forEach for enemy i.
\* inp.contact: the enemy overlaps the player; inp.hits: weapons overlapping it.
EnemyStep(w, i, dt, inp) ==
    LET w1 == [w EXCEPT !.game.enemies[i] = EnemyUpdate(@, dt)]
        w2 == EnemyContact(w1, i, inp.contact)
        w3 == WeaponLoop(w2, i, inp.hits)
    IN  EnemyAttack(w3, i)

RECURSIVE EnemyLoop(_, _, _, _)
EnemyLoop(w, i, dt, inps) ==
    IF i > Len(w.game.enemies) THEN w
    ELSE EnemyLoop(EnemyStep(w, i, dt, inps[i]), i + 1, dt, inps)

\* Game.applyChestReward; reward.roll is the Utils.randomInt(0, 4) of weapon_swap.
ApplyChestReward(w, reward) ==
    CASE reward.id = "weapon_supply" ->
            [w EXCEPT !.game.player.weaponCount = Min(MaxWeapons, @ + 4)]
      [] reward.id = "sharp_upgrade" ->
            [w EXCEPT !.game.player.weaponDamage = @ + 10 * Cent]
      [] reward.id = "auto_collect" ->
            [w EXCEPT !.game.player.autoCollectBuff = AutoCollectTime * TicksPerSecond]
      [] reward.id = "speed_burst" ->
            [w EXCEPT !.game.player.speedBuff = 15,
                      !.timers = Append(@, SpeedBurstTimer(w.ghost.session))]
      [] reward.id = "weapon_swap" ->
            [w EXCEPT !.game.player.weaponType = reward.roll]

\* Game.showSkillSelection; skills is the result of getRandomSkills(3).
ShowSkillSelection(w, skills) ==
    LET event == Len(w.ghost.applied) + 1
    IN  [w EXCEPT
            !.game.state = "levelup",
            !.dom.cards = skills,
            !.dom.cardsEvent = event,
            !.dom.skillModal = TRUE,
            !.timers = Append(@, SkillCountdownTimer(w.ghost.session, skills, event)),
            !.ghost.applied = Append(@, 0)]

\* Game.selectSkill; event is the level-up event the caller belongs to.
SelectSkill(w, id, event) ==
    [w EXCEPT !.dom.skillModal = FALSE,
              !.game = [ApplySkill(@, id) EXCEPT !.state = "playing"],
              !.ghost.applied[event] = Min(@ + 1, 2)]

\* Which orbs overlap the player in a frame: none, all, or the oldest one.
\* (Orbs dropped by this frame's kills are in the list when it is walked.)
OrbPicks == {"none", "all", "first"}

OrbOverlaps(pick, i) == pick = "all" \/ (pick = "first" /\ i = 1)

\* Game.update, lines 926-933: the walk over expOrbs.
RECURSIVE OrbLoop(_, _, _)
OrbLoop(w, i, collect) ==
    IF i > Len(w.game.expOrbs) THEN w
    ELSE LET orb == w.game.expOrbs[i]
             w1 == IF ~orb.collected /\ OrbOverlaps(collect, i)
                   THEN [w EXCEPT
                            !.game.expOrbs[i].collected = TRUE,
                            !.game.expOrbs[i].credits =
                                IF orb.value > 0 THEN Min(@ + 1, 2) ELSE @,
                            !.game.player = IF orb.value > 0
                                            THEN PlayerGainExp(@, orb.value) ELSE @]
                   ELSE w
         IN  OrbLoop(w1, i + 1, collect)

\* The null that Chest.update returns when it yields nothing.
NoReward == [id |-> "none", roll |-> 0]

\* Mutant of ChestUpdate: the chest is not looked at.
ChestUpdateAlways(ch, overlap, reward) ==
    IF overlap
    THEN [chest |-> [isOpen |-> TRUE, collected |-> TRUE], reward |-> reward]
    ELSE [chest |-> ch, reward |-> NoReward]

\* Chest.update: the chest after the call and the reward returned; overlap is
\* the circleCollision of chest and player, reward what getRandomReward draws.
ChestUpdate(ch, overlap, reward) ==
    IF ch.collected THEN [chest |-> ch, reward |-> NoReward]
    ELSE IF ~ch.isOpen /\ overlap
    THEN [chest |-> [isOpen |-> TRUE, collected |-> TRUE], reward |-> reward]
    ELSE [chest |-> ch, reward |-> NoReward]

\* Game.update, lines 936-942: the body of chests.forEach for chest i.
ChestStep(w, i, overlap, reward) ==
    LET r == ChestUpdate(w.game.chests[i], overlap, reward)
    IN  IF r.reward.id # "none"
        THEN ApplyChestReward([w EXCEPT !.game.chests[i] = r.chest], r.reward)
        ELSE w

\* Game.update, lines 936-943: opened[i] is "none" or the reward chest i yields.
RECURSIVE ChestLoop(_, _, _)
ChestLoop(w, i, opened) ==
    IF i > Len(w.game.chests) THEN w
    ELSE ChestLoop(ChestStep(w, i, opened[i].id # "none", opened[i]), i + 1, opened)

RECURSIVE Repeat(_, _)
Repeat(x, n) == IF n = 0 THEN <<>> ELSE <<x>> \o Repeat(x, n - 1)

\* Mutant of SpawnEnemies: a wave is always of 3 minions.
SpawnEnemiesFlat(g, dt) ==
    LET t1 == g.enemySpawnTimer + dt
        wave == t1 >= MinionWavePeriod * TicksPerSecond
        g1 == [g EXCEPT
                 !.enemySpawnTimer = IF wave THEN 0 ELSE t1,
                 !.enemies = IF wave THEN @ \o Repeat(NewEnemy("minion"), 3) ELSE @]
        t2 == g1.eliteSpawnTimer + dt
        elite == t2 >= ElitePeriod * TicksPerSecond
    IN  IF g1.survivalTime >= 30 * TicksPerSecond
        THEN [g1 EXCEPT
                 !.eliteSpawnTimer = IF elite THEN 0 ELSE t2,
                 !.enemies = IF elite THEN Append(@, NewEnemy("elite")) ELSE @]
        ELSE g1

\* Mutant of SpawnEnemies: the elite timer runs from the start of the session.
SpawnEnemiesEliteUngated(g, dt) ==
    LET t1 == g.enemySpawnTimer + dt
        wave == t1 >= MinionWavePeriod * TicksPerSecond
        count == Min(3 + (g.survivalTime \div (60 * TicksPerSecond)), 8)
        g1 == [g EXCEPT
                 !.enemySpawnTimer = IF wave THEN 0 ELSE t1,
                 !.enemies = IF wave THEN @ \o Repeat(NewEnemy("minion"), count) ELSE @]
        t2 == g1.eliteSpawnTimer + dt
        elite == t2 >= ElitePeriod * TicksPerSecond
    IN  [g1 EXCEPT
            !.eliteSpawnTimer = IF elite THEN 0 ELSE t2,
            !.enemies = IF elite THEN Append(@, NewEnemy("elite")) ELSE @]

\* Game.spawnEnemies: spawnEnemy(type) pushes a new enemy on the arena boundary.
SpawnEnemies(g, dt) ==
    LET t1 == g.enemySpawnTimer + dt
        wave == t1 >= MinionWavePeriod * TicksPerSecond
        count == Min(3 + (g.survivalTime \div (60 * TicksPerSecond)), 8)
        g1 == [g EXCEPT
                 !.enemySpawnTimer = IF wave THEN 0 ELSE t1,
                 !.enemies = IF wave THEN @ \o Repeat(NewEnemy("minion"), count) ELSE @]
        t2 == g1.eliteSpawnTimer + dt
        elite == t2 >= ElitePeriod * TicksPerSecond
    IN  IF g1.survivalTime >= 30 * TicksPerSecond
        THEN [g1 EXCEPT
                 !.eliteSpawnTimer = IF elite THEN 0 ELSE t2,
                 !.enemies = IF elite THEN Append(@, NewEnemy("elite")) ELSE @]
        ELSE g1

\* Game.spawnChest: placed is FALSE when all 10 candidates were too close.
SpawnChest(g, placed) ==
    IF placed THEN [g EXCEPT !.chests = Append(@, NewChest)] ELSE g

\* Mutant of SpawnBoss: bossSpawned is not set.
SpawnBossNoFlag(w) ==
    [w EXCEPT !.game.bossAlive = TRUE,
              !.game.enemies = Append(@, NewEnemy("boss")),
              !.ghost.bossSpawns = Min(@ + 1, 2)]

\* Game.spawnBoss
SpawnBoss(w) ==
    [w EXCEPT !.game.bossSpawned = TRUE,
              !.game.bossAlive = TRUE,
              !.game.enemies = Append(@, NewEnemy("boss")),
              !.ghost.bossSpawns = Min(@ + 1, 2)]

NotDead(en) == ~en.isDead
NotCollected(x) == ~x.collected

\* Game.update, lines 871-875: the clock and the player's countdowns.
UpdatePlayer(w, dt) ==
    [w EXCEPT !.game.survivalTime = @ + dt,
              !.game.player = PlayerUpdateTimers(@, dt),
              !.ghost.sinceHit = Min(@ + dt, InvincibleTime)]

\* Lines 878-881.
UpdateLevelUp(w, skills) ==
    IF PlayerCanLevelUp(w.game.player)
    THEN ShowSkillSelection([w EXCEPT !.game.player = PlayerLevelUp(@)], skills)
    ELSE w

\* Lines 953-957.
UpdateChestTimer(w, dt, placed) ==
    IF w.game.chestSpawnTimer + dt >= ChestPeriod * TicksPerSecond
    THEN [w EXCEPT !.game = [SpawnChest(@, placed) EXCEPT !.chestSpawnTimer = 0]]
    ELSE [w EXCEPT !.game.chestSpawnTimer = @ + dt]

\* Mutant of BossDue: both conditions are required.
BossDueBoth(g) == g.player.level >= BossLevel /\ g.survivalTime >= BossTime * TicksPerSecond

BossDue(g) == g.player.level >= BossLevel \/ g.survivalTime >= BossTime * TicksPerSecond

\* Lines 960-962, with the count of the updates that found the boss due.
UpdateBoss(w) ==
    [(IF ~w.game.bossSpawned /\ BossDue(w.game) THEN SpawnBoss(w) ELSE w)
        EXCEPT !.ghost.bossChecks = IF BossDue(w.game) THEN Min(@ + 1, 2) ELSE @]

\* Lines 965-967.
UpdateDeath(w) == IF w.game.player.hp <= 0 THEN GameOver(w, FALSE) ELSE w

\* Line 970.
UpdateScore(w) ==
    [w EXCEPT !.game.score =
        w.game.killCount * 10 + (w.game.survivalTime \div TicksPerSecond) * 2]

\* Game.update(deltaTime).  inp holds the frame's random draws and geometric
\* tests: skills (getRandomSkills), enemies[i] (contact, hits), orbs,
\* chests[i], placed (spawnChest).
Update(w, dt, inp) ==
    LET w1 == UpdatePlayer(w, dt)
        w2 == UpdateLevelUp(w1, inp.skills)
        w3 == [EnemyLoop(w2, 1, dt, inp.enemies)
                  EXCEPT !.game.enemies = SelectSeq(@, NotDead)]
        w4 == [OrbLoop(w3, 1, inp.orbs)
                  EXCEPT !.game.expOrbs = SelectSeq(@, NotCollected)]
        w5 == [ChestLoop(w4, 1, inp.chests)
                  EXCEPT !.game.chests = SelectSeq(@, NotCollected)]
        w6 == [w5 EXCEPT !.game = SpawnEnemies(@, dt)]
        w7 == UpdateChestTimer(w6, dt, inp.placed)
    IN  UpdateScore(UpdateDeath(UpdateBoss(w7)))

-----------------------------------------------------------------------------
(* Player.update: movement and the arena clamp.  Coordinates are counted in *)
(* cells of Grid canvas pixels and every real-valued result is rounded to   *)
(* the nearest cell; distances and radii are in pixels.                     *)

Grid == 10
CanvasWidth == 1200
CanvasHeight == 800
ArenaRadius == 500
PlayerRadius == 20
PointerEpsilon == 5

\* Game constructor, lines 762-763: the point the arena is drawn around and
\* spawnEnemy / spawnBoss / spawnChest place things around (in cells).
CenterX == (CanvasWidth \div 2) \div Grid
CenterY == (CanvasHeight \div 2) \div Grid

\* new Player(this.centerX, this.centerY); seek is targetX !== null.
KinInit == [x |-> CenterX, y |-> CenterY, tx |-> 0, ty |-> 0, seek |-> FALSE]

RECURSIVE Newton(_, _)
Newton(n, x) ==
    LET y == (x + n \div x) \div 2
    IN  IF y >= x THEN x ELSE Newton(n, y)

\* floor of the square root
ISqrt(n) == IF n = 0 THEN 0 ELSE Newton(n, n)

\* a / b rounded to the nearest integer, b > 0
RoundDiv(a, b) ==
    IF a >= 0 THEN (2 * a + b) \div (2 * b) ELSE 0 - ((2 * (0 - a) + b) \div (2 * b))

\* Math.sqrt(dx * dx + dy * dy) in pixels, for dx, dy in cells
DistPx(dx, dy) == ISqrt((dx * dx + dy * dy) * Grid * Grid)

\* Lines 208-211: the direction the held keys give.
KeyVx(keys) == IF "d" \in keys THEN 1 ELSE IF "a" \in keys THEN 0 - 1 ELSE 0
KeyVy(keys) == IF "s" \in keys THEN 1 ELSE IF "w" \in keys THEN 0 - 1 ELSE 0

\* Lines 241-247: distFromCenter is the distance from (0, 0), and
\* cos(atan2(y, x)) * maxDist is x * maxDist / distFromCenter.
ClampToArena(pos, arenaRadius) ==
    LET d == DistPx(pos.x, pos.y)
    IN  IF d + PlayerRadius > arenaRadius
        THEN [x |-> RoundDiv(pos.x * (arenaRadius - PlayerRadius), d),
              y |-> RoundDiv(pos.y * (arenaRadius - PlayerRadius), d)]
        ELSE pos

\* Lines 214-219: a pointer target is set and more than 5 px away.
Seeking(k) == k.seek /\ DistPx(k.tx - k.x, k.ty - k.y) > PointerEpsilon

\* Lines 204-226: (vx, vy) before normalisation, scaled by 1000, and its length.
Velocity(k, keys) ==
    IF Seeking(k)
    THEN [x |-> (k.tx - k.x) * Grid, y |-> (k.ty - k.y) * Grid,
          mag |-> DistPx(k.tx - k.x, k.ty - k.y)]
    ELSE [x |-> KeyVx(keys) * 1000, y |-> KeyVy(keys) * 1000,
          mag |-> ISqrt((KeyVx(keys) * KeyVx(keys) + KeyVy(keys) * KeyVy(keys)) * 1000000)]

\* Lines 229-238: the position after a step of stepPx pixels along v.
Advance(k, v, stepPx) ==
    IF v.mag > 0
    THEN [x |-> k.x + RoundDiv(v.x * stepPx, v.mag * Grid),
          y |-> k.y + RoundDiv(v.y * stepPx, v.mag * Grid)]
    ELSE [x |-> k.x, y |-> k.y]

\* The player's kinematic fields after the update: the target is dropped
\* (null) once it is reached.
Moved(k, pos, seeking) ==
    [x |-> pos.x, y |-> pos.y, seek |-> seeking,
     tx |-> IF seeking THEN k.tx ELSE 0, ty |-> IF seeking THEN k.ty ELSE 0]

\* Player.update, lines 203-247.  p is the player (speed, speedBuff), k its
\* kinematic fields, dt in ticks; speed * speedBuff * dt is the length of the
\* step in pixels.
PlayerMove(k, p, keys, dt, arenaRadius) ==
    Moved(k,
          ClampToArena(
              Advance(k, Velocity(k, keys),
                      (p.speed * p.speedBuff * dt) \div (Cent * 10 * TicksPerSecond)),
              arenaRadius),
          Seeking(k))

-----------------------------------------------------------------------------
(* Bounds of the model *)

MaxFrames == 2        \* rendered frames per behaviour
MaxRestarts == 1      \* restart() calls per behaviour
MaxHits == 2          \* weapons overlapping one enemy in one frame
MaxLevelUps == 1      \* level-up events (showSkillSelection calls) per behaviour

\* Wall-clock ticks between two rendered frames (deltaTime is clamped to 2).
Elapsed == {1, 2}

\* The getRandomSkills results enumerated (a subset of AllSkillDraws that
\* offers every catalog entry).
SkillDraws ==
    { <<"add_weapon", "hp_boost", "exp_magnet">>,
      <<"damage_boost", "emergency_heal", "defense_up">>,
      <<"radius_expand", "rotate_faster", "speed_boost">> }

EnemyInputs == [contact : BOOLEAN, hits : 0..MaxHits]

ChestInputs ==
    {[id |-> "none", roll |-> 0]}
    \cup {[id |-> r, roll |-> 0] : r \in RewardIds \ {"weapon_swap"}}
    \cup {[id |-> "weapon_swap", roll |-> k] : k \in {0, 4}}

\* The inputs of one update(dt) call made in world w.
FrameInputs(w, dt) ==
    [ skills : IF PlayerCanLevelUp(w.game.player) THEN SkillDraws ELSE {NoSkills},
      enemies : [1..Len(w.game.enemies) -> EnemyInputs],
      orbs : OrbPicks,
      chests : [1..Len(w.game.chests) -> ChestInputs],
      placed : IF w.game.chestSpawnTimer + dt >= ChestPeriod * TicksPerSecond
               THEN BOOLEAN ELSE {TRUE} ]

-----------------------------------------------------------------------------
(* The frame loop *)

\* In Spec and SpecMove no object is exercised on its own.
NoUnit == [kind |-> "none"]

World == [game |-> game, timers |-> timers, dom |-> dom, ghost |-> ghost]

Commit(w) ==
    /\ game' = w.game
    /\ timers' = w.timers
    /\ dom' = w.dom
    /\ ghost' = w.ghost

\* Game.gameLoop, lines 856-865: the worlds one call can lead to.
GameLoopResults(w, dt) ==
    IF w.game.state # "playing" THEN {w}
    ELSE IF PlayerCanLevelUp(w.game.player) /\ Len(w.ghost.applied) >= MaxLevelUps
    THEN {}    \* the bound on level-up events: no further frame is modelled
    ELSE {[Update(w, dt, inp) EXCEPT !.ghost.updatesInFrame = Min(@ + 1, 3)]
            : inp \in FrameInputs(w, dt)}

\* The n requestAnimationFrame callbacks of one rendered frame run back to
\* back: the first sees the elapsed time, the others a deltaTime of 0
\* (this.lastTime was just set).
RECURSIVE RunLoops(_, _, _)
RunLoops(w, n, dt) ==
    IF n = 0 THEN {w}
    ELSE UNION {RunLoops(w2, n - 1, 0) : w2 \in GameLoopResults(w, dt)}

\* One rendered frame, e ticks after the previous one.
Frame ==
    /\ ghost.frames < MaxFrames
    /\ ~TimerDue(timers)
    /\ \E e \in Elapsed :
         LET w0 == [World EXCEPT
                      !.timers = TimersElapse(@, e),
                      !.ghost.frames = @ + 1,
                      !.ghost.updatesInFrame = 0]
         IN  \E w2 \in RunLoops(w0, loops, Min(e, MaxDeltaTime)) : Commit(w2)
    /\ UNCHANGED <<loops, kin, unit>>

\* Time passes without a rendered frame (requestAnimationFrame is suspended
\* while the page is hidden; timers keep running) until the next timer is due.
Idle ==
    /\ timers # <<>>
    /\ ~TimerDue(timers)
    /\ LET e == CHOOSE e \in 1..SpeedBurstDelay :
                   /\ \E i \in 1..Len(timers) : timers[i].remaining = e
                   /\ \A i \in 1..Len(timers) : timers[i].remaining >= e
       IN  timers' = TimersElapse(timers, e)
    /\ UNCHANGED <<game, dom, loops, kin, ghost, unit>>

\* History: the callback of timer t led to world w2; it is recorded when t was
\* created in an earlier session and the callback changed the player or the state.
TimerEffect(t, w2) ==
    [w2 EXCEPT !.ghost.staleMutation =
        @ \/ (t.session # ghost.session
              /\ (w2.game.player # game.player \/ w2.game.state # game.state))]

\* The setTimeout callback of the boss attack, lines 913-918; inRange is the
\* outcome of dist < 200.
BossAttackFires ==
    \E i \in 1..Len(timers) : \E inRange \in BOOLEAN :
        /\ timers[i].kind = "boss"
        /\ timers[i].remaining = 0
        /\ LET w0 == [World EXCEPT !.timers = RemoveAt(@, i)]
           IN  Commit(TimerEffect(
                   timers[i], IF inRange THEN DamagePlayer(w0, BossAttackDamage) ELSE w0))
        /\ UNCHANGED <<loops, kin, unit>>

\* The setTimeout callback of speed_burst, lines 1097-1099.
SpeedBurstExpires ==
    \E i \in 1..Len(timers) :
        /\ timers[i].kind = "speed"
        /\ timers[i].remaining = 0
        /\ Commit(TimerEffect(
                   timers[i], [World EXCEPT !.timers = RemoveAt(@, i),
                                            !.game.player.speedBuff = 10]))
        /\ UNCHANGED <<loops, kin, unit>>

\* The setInterval callback of showSkillSelection, lines 1140-1147.
SkillCountdownFires ==
    \E i \in 1..Len(timers) :
        /\ timers[i].kind = "skill"
        /\ timers[i].remaining = 0
        /\ LET t == timers[i]
           IN  IF t.countdown - 1 <= 0
               THEN \E k \in 1..3 :
                        Commit(TimerEffect(
                            t, SelectSkill([World EXCEPT !.timers = RemoveAt(@, i)],
                                           t.skills[k], t.event)))
               ELSE Commit([World EXCEPT
                              !.timers[i].countdown = @ - 1,
                              !.timers[i].remaining = SkillCountdownInterval])
        /\ UNCHANGED <<loops, kin, unit>>

\* card.onclick, line 1131: a click on one of the cards of the open skill modal.
ClickSkill ==
    /\ dom.skillModal
    /\ dom.cards # NoSkills
    /\ \E k \in 1..3 :
         Commit(SelectSkill(World, dom.cards[k], dom.cardsEvent))
    /\ UNCHANGED <<loops, kin, unit>>

\* Game.restart, called by the button of the game-over modal: init() resets
\* the session and calls gameLoop() once more.
Restart ==
    /\ dom.gameOverModal
    /\ ghost.restarts < MaxRestarts
    /\ LET w0 == [World EXCEPT
                    !.dom.gameOverModal = FALSE,
                    !.game = InitGame,
                    !.ghost.session = @ + 1,
                    !.ghost.restarts = @ + 1,
                    !.ghost.bossSpawns = 0,
                    !.ghost.bossChecks = 0,
                    !.ghost.deaths = 0,
                    !.ghost.reports = 0,
                    !.ghost.victory = FALSE,
                    !.ghost.hitTaken = FALSE,
                    !.ghost.graceTested = FALSE,
                    !.ghost.sinceHit = 0,
                    !.ghost.updatesInFrame = 0]
       IN  \E w2 \in GameLoopResults(w0, 0) :
               Commit([w2 EXCEPT !.ghost.updatesInFrame = 0])
    /\ loops' = loops + 1
    /\ UNCHANGED <<kin, unit>>

-----------------------------------------------------------------------------
(* Initial states.  A session is modelled from the state right after       *)
(* construction (FreshGame) and from states a running session passes       *)
(* through, so that a bounded run reaches the level-ups, the boss and the  *)
(* end of the game.  Each is a state between two frames.                   *)

FreshGame == InitGame

\* 40 s in: 19 minions killed (57 orbs of 5/3 exp collected, the last one in
\* the frame just ended, so exp = 100 and the level-up is due), hit 19 times
\* by minions (hp 5), one wounded minion near the player, one orb on the ground.
SkirmishGame ==
    [InitGame EXCEPT
        !.survivalTime = 810, !.enemySpawnTimer = 10, !.eliteSpawnTimer = 210,
        !.chestSpawnTimer = 810, !.killCount = 19, !.score = 270,
        !.player.hp = 5 * HpScale, !.player.exp = 100 * ExpScale,
        !.enemies = <<[NewEnemy("minion") EXCEPT !.hp = 10 * Cent]>>,
        !.expOrbs = <<NewExpOrb(5)>>]

\* 50 s in: nothing killed yet, the first chest (spawned at 45 s) on the ground.
ChestGame ==
    [InitGame EXCEPT
        !.survivalTime = 1000, !.enemySpawnTimer = 0, !.eliteSpawnTimer = 401,
        !.chestSpawnTimer = 100, !.score = 100,
        !.enemies = <<NewEnemy("minion")>>,
        !.chests = <<NewChest>>]

\* 75 s in, level 9 with the 10th level due: 8 skills chosen so far
\* (6 x add_weapon, 2 x defense_up), 60 kills.
LevelNineGame ==
    [InitGame EXCEPT
        !.survivalTime = 1500, !.enemySpawnTimer = 100, !.eliteSpawnTimer = 300,
        !.chestSpawnTimer = 600, !.killCount = 60, !.score = 750,
        !.player.level = 9, !.player.exp = 100 * ExpScale,
        !.player.weaponCount = 8, !.player.defenseRate = 2,
        !.player.hp = 20 * HpScale]

\* 119.9 s in at level 1: the boss is due by time in two ticks.
BossDueGame ==
    [InitGame EXCEPT
        !.survivalTime = 2398, !.enemySpawnTimer = 150, !.eliteSpawnTimer = 580,
        !.chestSpawnTimer = 598, !.score = 238,
        !.player.hp = 40 * HpScale]

\* 130 s in: the boss (spawned at 120 s) is down to 10 hp and about to attack,
\* the player is down to 10 hp, carries the six weapons of a weapon_supply
\* chest and has just collected the orb that makes the next level due.
BossFightGame ==
    [InitGame EXCEPT
        !.survivalTime = 2600, !.enemySpawnTimer = 50, !.eliteSpawnTimer = 200,
        !.chestSpawnTimer = 800, !.killCount = 10, !.score = 360,
        !.bossSpawned = TRUE, !.bossAlive = TRUE,
        !.player.hp = 10 * HpScale, !.player.exp = 100 * ExpScale,
        !.player.weaponCount = 6,
        !.enemies = <<[NewEnemy("boss") EXCEPT !.hp = 10 * Cent,
                                              !.attackCooldown = 2]>>]

InitGames ==
    {FreshGame, SkirmishGame, ChestGame, LevelNineGame, BossDueGame, BossFightGame}

Init ==
    /\ game \in InitGames
    /\ timers = <<>>
    /\ dom = InitDom
    /\ loops = 1
    /\ kin = KinInit
    /\ unit = NoUnit
    /\ ghost = [InitGhost EXCEPT
                  !.bossSpawns = IF game.bossSpawned THEN 1 ELSE 0,
                  !.bossChecks = IF game.bossSpawned THEN 1 ELSE 0,
                  !.deaths = game.killCount,
                  !.hitTaken = game.player.hp < game.player.maxHp,
                  !.sinceHit = InvincibleTime]

Next ==
    \/ Frame
    \/ Idle
    \/ BossAttackFires
    \/ SpeedBurstExpires
    \/ SkillCountdownFires
    \/ ClickSkill
    \/ Restart

Spec == Init /\ [][Next]_vars

-----------------------------------------------------------------------------
(* Movement: the player driven by keys and the pointer, frame after frame. *)

\* The inputs enumerated: every set of held direction keys, a frame of 0 or
\* 0.1 s, the pointer on a corner, the middle or the opposite corner of the canvas.
MoveKeys == SUBSET {"w", "a", "s", "d"}
MoveDeltas == {0, MaxDeltaTime}
Pointers ==
    {[x |-> 0, y |-> 0], [x |-> CenterX, y |-> CenterY],
     [x |-> 2 * CenterX, y |-> 2 * CenterY]}

InitMove ==
    /\ game = FreshGame
    /\ timers = <<>>
    /\ dom = InitDom
    /\ loops = 1
    /\ kin = KinInit
    /\ unit = NoUnit
    /\ ghost = InitGhost

\* this.player.update(deltaTime, this.keys, this.arenaRadius), line 875
MoveFrame ==
    /\ \E keys \in MoveKeys : \E dt \in MoveDeltas :
         kin' = PlayerMove(kin, game.player, keys, dt, ArenaRadius)
    /\ UNCHANGED <<game, timers, dom, loops, ghost, unit>>

\* Game.handleMouseMove: the pointer is pressed or dragged on the canvas.
PointerMove ==
    /\ \E pt \in Pointers : kin' = [kin EXCEPT !.tx = pt.x, !.ty = pt.y, !.seek = TRUE]
    /\ UNCHANGED <<game, timers, dom, loops, ghost, unit>>

NextMove == MoveFrame \/ PointerMove

SpecMove == InitMove /\ [][NextMove]_vars

\* C4: after every Player.update the player is within arenaRadius - radius of
\* the arena centre (CenterX, CenterY), up to the rounding of one cell.
PlayerInsideArena ==
    DistPx(kin.x - CenterX, kin.y - CenterY) <= ArenaRadius - PlayerRadius + Grid

-----------------------------------------------------------------------------
(* Properties of a session (specification Spec) *)

SameSession == ghost'.session = ghost.session

\* C1: gameover is terminal: once the state is 'gameover', no step of the
\* same session (frame, card click, countdown, boss-attack or buff timer)
\* changes it; only restart() leaves it.
GameoverIsTerminal ==
    [][(game.state = "gameover" /\ SameSession) => game'.state = "gameover"]_vars

\* C2: for every level-up event (showSkillSelection call) at most one skill,
\* the clicked one or the automatically chosen one, is applied, never both.
OneSkillPerLevelUp ==
    \A ev \in 1..Len(ghost.applied) : ghost.applied[ev] <= 1

\* The fields C3 speaks of.
Simulation(g) ==
    [ survivalTime |-> g.survivalTime, enemies |-> g.enemies,
      expOrbs |-> g.expOrbs, chests |-> g.chests, hp |-> g.player.hp,
      invincible |-> g.player.invincible, speedBuff |-> g.player.speedBuff ]

\* C3: while the state is 'levelup' (after the frame that detected the
\* level-up and before the selection) survivalTime, the entity collections
\* and the player's hp, invincibility and speedBuff do not change.
LevelUpSuspendsSimulation ==
    [][(game.state = "levelup" /\ game'.state = "levelup")
          => Simulation(game') = Simulation(game)]_vars

\* C5: a takeDamage call made less than 0.5 s of simulated time after a
\* successful hit leaves hp and invincible unchanged, so the calls of one
\* grace window change hp once.
OneHitPerGraceWindow == ~ghost.graceBroken

\* C5 witness: takeDamage was called inside the grace window of a hit (and
\* left the player as it was).
GraceWindowTested ==
    ghost.hitTaken /\ ghost.graceTested /\ ghost.sinceHit < InvincibleTime

\* C6: in every reachable state 0 <= hp <= maxHp.
HpInRange == game.player.hp >= 0 /\ game.player.hp <= game.player.maxHp

\* C6 witness: damage has driven the hp to 0.
HpFlooredAtZero == game.player.hp = 0 /\ game.player.invincible > 0

\* C7: the boss is spawned at most once per session: spawnBoss runs at most
\* once and the enemies hold at most one boss.
BossSpawnedOnce ==
    /\ ghost.bossSpawns <= 1
    /\ Cardinality({i \in 1..Len(game.enemies) : game.enemies[i].type = "boss"}) <= 1

\* C7 witness: the boss was spawned by level 10 before 120 s and a later
\* update found the spawn condition true again.
BossConditionSeenAgain ==
    /\ ghost.bossSpawns = 1
    /\ ghost.bossChecks = 2
    /\ game.player.level >= BossLevel
    /\ game.survivalTime < BossTime * TicksPerSecond

\* C8: once the player's hp is 0 it does not become positive again and, the
\* game being over, play does not resume, unless the game is restarted.
DefeatIsFinal ==
    [][(game.player.hp = 0 /\ SameSession)
          => /\ game'.player.hp = 0
             /\ (game.state = "gameover" => game'.state = "gameover")]_vars

\* C9: a timer created in one session never changes the player or the state
\* of a later session.
NoStaleTimerEffect == ~ghost.staleMutation

\* C10: one simulation loop is active at any time and update() runs at most
\* once per rendered frame, also after restart().
SingleGameLoop == loops = 1 /\ ghost.updatesInFrame <= 1

\* The boss of this session has been defeated (killEnemy, lines 1059-1060).
BossDefeated == game.bossSpawned /\ ~game.bossAlive

\* C11: at the end of every update the score is killCount * 10 +
\* floor(survivalTime) * 2, plus the victory bonus of 50 once the boss has
\* been defeated.
ScoreWithVictoryBonus ==
    game.score = game.killCount * 10 + (game.survivalTime \div TicksPerSecond) * 2
                 + (IF BossDefeated THEN VictoryBonus ELSE 0)

\* C12: experience is credited once per orb: the value of an orb is added to
\* player.exp at most once, by ExpOrb.update or by the exp_magnet skill.
OrbCreditedOnce ==
    \A i \in 1..Len(game.expOrbs) : game.expOrbs[i].credits <= 1

-----------------------------------------------------------------------------
(* Unit level: one Enemy object under takeDamage, update and performAttack *)

\* weaponDamage values: the initial 10, after damage_boost, after sharp_upgrade
EnemyDamages == {10 * Cent, 11 * Cent, 20 * Cent}

\* afterDeathHits / afterDeathUpdates: a takeDamage / update call was made on
\* the enemy after its death.
InitEnemy ==
    /\ game = FreshGame
    /\ timers = <<>>
    /\ dom = InitDom
    /\ loops = 1
    /\ kin = KinInit
    /\ ghost = InitGhost
    /\ unit \in {[kind |-> "enemy", enemy |-> NewEnemy(type),
                  afterDeathHits |-> FALSE, afterDeathUpdates |-> FALSE,
                  attacks |-> 0,        \* performAttack calls so far (capped)
                  sinceAttack |-> 0,    \* ticks of the frames since the last one (capped)
                  hits |-> 0,           \* takeDamage calls so far (capped)
                  damageTaken |-> 0]    \* their damage in total (capped at the archetype hp)
                    : type \in EnemyTypes}

\* enemy.takeDamage(this.player.weaponDamage), line 899
EnemyHit ==
    /\ \E damage \in EnemyDamages :
         unit' = [unit EXCEPT !.enemy = EnemyTakeDamage(@, damage),
                              !.afterDeathHits = @ \/ unit.enemy.isDead,
                              !.hits = Min(@ + 1, 3),
                              !.damageTaken =
                                  Min(@ + damage, EnemyConfig(unit.enemy.type).hp * Cent)]
    /\ UNCHANGED <<game, timers, dom, loops, kin, ghost>>

\* enemy.update(deltaTime, ...), line 885, in a frame of 0.05 s or 0.1 s; a
\* living boss whose cooldown has run out attacks in the same frame
\* (EnemyStrike) before its next update.
EnemyTick ==
    /\ unit.enemy.isDead \/ ~EnemyCanAttack(unit.enemy)
    /\ \E dt \in Elapsed :
         unit' = [unit EXCEPT !.enemy = EnemyUpdate(@, dt),
                              !.afterDeathUpdates = @ \/ unit.enemy.isDead,
                              !.sinceAttack =
                                  Min(@ + dt, BossAttackInterval * TicksPerSecond)]
    /\ UNCHANGED <<game, timers, dom, loops, kin, ghost>>

\* enemy.performAttack(), lines 909-910
EnemyStrike ==
    /\ EnemyCanAttack(unit.enemy)
    /\ unit' = [unit EXCEPT !.enemy = EnemyPerformAttack(@),
                            !.attacks = Min(@ + 1, 2),
                            !.sinceAttack = 0]
    /\ UNCHANGED <<game, timers, dom, loops, kin, ghost>>

NextEnemy == EnemyHit \/ EnemyTick \/ EnemyStrike

SpecEnemy == InitEnemy /\ [][NextEnemy]_vars

\* C13: enemy death is terminal: a dead enemy has hp 0, and every takeDamage
\* or update call on a dead enemy leaves it dead with hp 0.
EnemyDeathIsTerminal ==
    [][/\ unit'.enemy.isDead => unit'.enemy.hp = 0
       /\ unit.enemy.isDead => unit'.enemy.isDead]_vars

\* C13 witness: an enemy that was hit again and updated after its death.
EnemyHitAfterDeath ==
    unit.enemy.isDead /\ unit.afterDeathHits /\ unit.afterDeathUpdates

-----------------------------------------------------------------------------
(* Unit level: one Player object under gainExp and checkLevelUp *)

MaxExp == 250         \* gainExp is called while exp <= MaxExp
MaxLevel == 4         \* gainExp is called while level < MaxLevel

\* Amounts gained (in thirds): an orb of a minion, an elite or the boss, and
\* a whole level's worth (exp_magnet over many orbs).
ExpGains == {5, 20, 100, 100 * ExpScale}

\* op is the last method called, returned what checkLevelUp returned.
InitLevelUp ==
    /\ game = FreshGame
    /\ timers = <<>>
    /\ dom = InitDom
    /\ loops = 1
    /\ kin = KinInit
    /\ ghost = InitGhost
    /\ unit = [kind |-> "player", player |-> NewPlayer, op |-> "new",
               returned |-> FALSE]

\* this.player.gainExp(amount)
PlayerGains ==
    /\ unit.player.exp <= MaxExp * ExpScale
    /\ unit.player.level < MaxLevel
    /\ \E amount \in ExpGains :
         unit' = [unit EXCEPT !.player = PlayerGainExp(@, amount),
                              !.op = "gainExp", !.returned = FALSE]
    /\ UNCHANGED <<game, timers, dom, loops, kin, ghost>>

\* this.player.checkLevelUp()
PlayerChecksLevelUp ==
    /\ unit' = [unit EXCEPT !.player = PlayerCheckLevelUp(@).player,
                            !.op = "checkLevelUp",
                            !.returned = PlayerCheckLevelUp(unit.player).returned]
    /\ UNCHANGED <<game, timers, dom, loops, kin, ghost>>

NextLevelUp == PlayerGains \/ PlayerChecksLevelUp

SpecLevelUp == InitLevelUp /\ [][NextLevelUp]_vars

\* C14: a checkLevelUp call with exp >= expToLevel subtracts expToLevel once,
\* adds one level and returns true; otherwise it changes nothing and returns
\* false.
CheckLevelUpOneLevel ==
    [][unit'.op = "checkLevelUp" =>
          IF unit.player.exp >= unit.player.expToLevel
          THEN /\ unit'.player = [unit.player EXCEPT
                                     !.exp = @ - unit.player.expToLevel,
                                     !.level = @ + 1]
               /\ unit'.returned
          ELSE /\ unit'.player = unit.player
               /\ ~unit'.returned]_vars

\* C14 witness: exp was 250 at level 1; the call left level 2 and exp 150.
CheckLevelUpWithSurplus ==
    /\ unit.op = "checkLevelUp" /\ unit.returned
    /\ unit.player.level = 2
    /\ unit.player.exp = 150 * ExpScale

-----------------------------------------------------------------------------
(* Unit level: Game.spawnEnemies frame after frame, no enemy being killed *)

MaxSpawnFrames == 6   \* frames per behaviour

\* Sessions 5 ticks before a minion wave is due: the first wave, the waves at
\* 1, 3, 5 and 8 minutes; the elite timer far from or close to its period.
SpawnGames ==
    {[InitGame EXCEPT !.survivalTime = t, !.enemySpawnTimer = 195,
                      !.eliteSpawnTimer = IF t < 30 * TicksPerSecond THEN 0 ELSE el,
                      !.score = (t \div TicksPerSecond) * 2]
        : t \in {195, 1195, 3595, 5995, 9595}, el \in {100, 598}}

InitSpawn ==
    /\ game \in SpawnGames
    /\ timers = <<>>
    /\ dom = InitDom
    /\ loops = 1
    /\ kin = KinInit
    /\ ghost = InitGhost
    /\ unit = NoUnit

\* Lines 871 and 950 of Game.update: the clock advances, spawnEnemies runs.
SpawnFrame ==
    /\ ghost.frames < MaxSpawnFrames
    /\ \E dt \in 0..MaxDeltaTime :
         game' = SpawnEnemies([game EXCEPT !.survivalTime = @ + dt], dt)
    /\ ghost' = [ghost EXCEPT !.frames = @ + 1]
    /\ UNCHANGED <<timers, dom, loops, kin, unit>>

NextSpawn == SpawnFrame

SpecSpawn == InitSpawn /\ [][NextSpawn]_vars

Minions(g) == Cardinality({i \in 1..Len(g.enemies) : g.enemies[i].type = "minion"})

\* C15: in a frame in which enemySpawnTimer reaches 10 s exactly
\* min(3 + floor(survivalTime / 60), 8) minions are added and the timer is
\* reset to 0; in any other frame no minion is added.
MinionWaveSize ==
    [][IF game.enemySpawnTimer + (game'.survivalTime - game.survivalTime)
             >= MinionWavePeriod * TicksPerSecond
       THEN /\ Minions(game') - Minions(game)
                 = Min(3 + (game'.survivalTime \div (60 * TicksPerSecond)), 8)
            /\ game'.enemySpawnTimer = 0
       ELSE /\ Minions(game') = Minions(game)
            /\ game'.enemySpawnTimer
                 = game.enemySpawnTimer + (game'.survivalTime - game.survivalTime)]_vars

\* C15 witness: the wave at 180 s has added 6 minions.
WaveOfSix ==
    /\ Minions(game) = 6
    /\ game.enemySpawnTimer = 0
    /\ game.survivalTime >= 180 * TicksPerSecond

-----------------------------------------------------------------------------
(* Unit level: one Chest under repeated update calls, its reward applied *)

\* What getRandomReward can return (the roll is only read by weapon_swap).
ChestRewards ==
    {[id |-> r, roll |-> 0] : r \in RewardIds \ {"weapon_swap"}}
    \cup {[id |-> "weapon_swap", roll |-> k] : k \in {0, 4}}

\* One chest on the ground; the player's weapons as the skills and earlier
\* chests can have left them.
ChestGames ==
    {[InitGame EXCEPT !.chests = <<NewChest>>,
                      !.player.weaponCount = n, !.player.weaponDamage = d]
        : n \in {2, 3, 6, 8}, d \in {10 * Cent, 11 * Cent, 20 * Cent, 21 * Cent}}

\* returned: what the last update call returned; yielded: rewards returned so
\* far (capped at 2); lateCall: update was called, the player overlapping, on
\* the collected chest.
InitChest ==
    /\ game \in ChestGames
    /\ timers = <<>>
    /\ dom = InitDom
    /\ loops = 1
    /\ kin = KinInit
    /\ ghost = InitGhost
    /\ unit = [kind |-> "chest", returned |-> NoReward, yielded |-> 0,
               lateCall |-> FALSE]

\* const reward = chest.update(deltaTime, this.player); if (reward) ...
ChestCall ==
    /\ \E overlap \in BOOLEAN : \E reward \in ChestRewards :
         /\ Commit(ChestStep(World, 1, overlap, reward))
         /\ unit' = [unit EXCEPT
                       !.returned = ChestUpdate(game.chests[1], overlap, reward).reward,
                       !.yielded = IF ChestUpdate(game.chests[1], overlap, reward).reward.id
                                        # "none"
                                   THEN Min(@ + 1, 2) ELSE @,
                       !.lateCall = @ \/ (overlap /\ game.chests[1].collected)]
    /\ UNCHANGED <<loops, kin>>

NextChest == ChestCall

SpecChest == InitChest /\ [][NextChest]_vars

\* C16: a chest yields one reward over its lifetime: update returns a reward
\* only on an unopened chest, which it opens and collects together, and null
\* on every other call; the reward is one of the five catalog entries, and
\* applying sharp_upgrade adds exactly 10 to weaponDamage.
ChestYieldsOnce ==
    [][/\ unit'.yielded <= 1
       /\ game'.chests[1].isOpen = game'.chests[1].collected
       /\ game.chests[1].collected => unit'.returned = NoReward
       /\ unit'.returned # NoReward =>
            /\ ~game.chests[1].isOpen /\ ~game.chests[1].collected
            /\ game'.chests[1].isOpen /\ game'.chests[1].collected
            /\ unit'.returned.id \in RewardIds
       /\ unit'.returned.id = "sharp_upgrade" =>
            game'.player.weaponDamage = game.player.weaponDamage + 10 * Cent]_vars

\* C16 witness: the chest yielded sharp_upgrade to a player of weaponDamage
\* 21, and was later updated again with the player on it.
ChestOpenedAndCalledAgain ==
    /\ unit.yielded = 1 /\ unit.lateCall /\ unit.returned = NoReward
    /\ game.chests[1].collected
    /\ game.player.weaponDamage = 31 * Cent

\* C18: every enemy's death is resolved by exactly one killEnemy call, so the
\* kill count of a session is the number of its enemies that died, also
\* when several weapons overlap the enemy in the frame of its death.
KillResolvedOnce == game.killCount = ghost.deaths

\* C19: a dead enemy is inert: once its isDead flag is set it starts no boss
\* attack (no performAttack, no attack timer), also during the rest of the
\* frame of its death.
DeadEnemyInert == ~ghost.deadAttack

\* C20: once the boss is killed the session ends as a victory: the outcome
\* shown is victory, it is never replaced by a defeat, and gameOver is
\* reported once in the session.
VictoryStands ==
    ghost.victory => dom.outcome = "victory" /\ ghost.reports = 1

\* C24: the boss spawn condition is honoured in both directions: between two
\* frames the boss has been spawned in this session exactly when the level
\* is at least 10 or the survival time at least 120 s (level and survival
\* time never decrease within a session, and both are final for the frame
\* when the check of lines 960-962 runs).
BossSpawnHonoured ==
    game.bossSpawned <=> (\/ game.player.level >= BossLevel
                          \/ game.survivalTime >= BossTime * TicksPerSecond)

\* C24 witness: the boss was spawned by the survival time alone, in the
\* first frame that reached 120 s.
BossSpawnedByTime ==
    /\ game.bossSpawned /\ ghost.bossSpawns = 1 /\ ghost.bossChecks = 1
    /\ game.player.level < BossLevel
    /\ game.survivalTime >= BossTime * TicksPerSecond
    /\ game.survivalTime < BossTime * TicksPerSecond + MaxDeltaTime
    /\ ghost.frames >= 1

-----------------------------------------------------------------------------
(* Unit level: Game.spawnEnemies over the first 92 s of a session, with the *)
(* survival times of the elite spawns.                                      *)

MaxEliteTime == 1850      \* ticks of survival time per behaviour (92.5 s)
EliteStart == 30          \* survivalTime >= 30 in spawnEnemies

Elites(g) == Cardinality({i \in 1..Len(g.enemies) : g.enemies[i].type = "elite"})

\* Sessions 29.7 s to 29.95 s in: two waves of minions so far, the third due
\* within the next 0.3 s.
EliteGames ==
    {[InitGame EXCEPT !.survivalTime = t, !.enemySpawnTimer = t - 400,
                      !.score = (t \div TicksPerSecond) * 2]
        : t \in {594, 597, 598, 599}}

InitElite ==
    /\ game \in EliteGames
    /\ timers = <<>>
    /\ dom = InitDom
    /\ loops = 1
    /\ kin = KinInit
    /\ ghost = InitGhost
    /\ unit = [kind |-> "elite",
               elites |-> 0,     \* elites spawned so far
               first |-> 0,      \* survival time at the first spawn
               last |-> 0,       \* survival time at the last spawn
               gap |-> 0]        \* survival time between the last two spawns

\* History: spawnEnemies changed the session from g to g2.
EliteHistory(u, g, g2) ==
    IF Elites(g2) = Elites(g) THEN u
    ELSE [u EXCEPT !.elites = @ + Elites(g2) - Elites(g),
                   !.first = IF u.elites = 0 THEN g2.survivalTime ELSE @,
                   !.last = g2.survivalTime,
                   !.gap = IF u.elites = 0 THEN 0 ELSE g2.survivalTime - u.last]

\* The session after lines 871 and 950 of one update(dt).
EliteFrameResult(g, dt) == SpawnEnemies([g EXCEPT !.survivalTime = @ + dt], dt)

\* Lines 871 and 950 of Game.update: the clock advances, spawnEnemies runs.
EliteFrame ==
    /\ game.survivalTime < MaxEliteTime
    /\ \E dt \in Elapsed :
         /\ game' = EliteFrameResult(game, dt)
         /\ unit' = EliteHistory(unit, game, EliteFrameResult(game, dt))
    /\ UNCHANGED <<timers, dom, loops, kin, ghost>>

NextElite == EliteFrame

SpecElite == InitElite /\ [][NextElite]_vars

\* C25 as stated: no elite and no elite timer while survivalTime < 30, one
\* elite at a time, two consecutive elite spawns at least 30 s of survival
\* time apart, and the first elite no earlier than survivalTime 60.
ElitesFromSixtySeconds ==
    /\ game.survivalTime < EliteStart * TicksPerSecond
          => unit.elites = 0 /\ game.eliteSpawnTimer = 0
    /\ unit.elites >= 2 => unit.gap >= ElitePeriod * TicksPerSecond
    /\ unit.elites >= 1 => unit.first >= (EliteStart + ElitePeriod) * TicksPerSecond

\* C25, amended: as above, but the first elite appears no earlier than one
\* frame (at most 0.1 s) before survivalTime 60: the frame in which
\* survivalTime reaches 30 adds its whole deltaTime to the elite timer.
ElitesSpaced ==
    /\ game.survivalTime < EliteStart * TicksPerSecond
          => unit.elites = 0 /\ game.eliteSpawnTimer = 0
    /\ unit.elites >= 2 => unit.gap >= ElitePeriod * TicksPerSecond
    /\ unit.elites >= 1
          => unit.first >= (EliteStart + ElitePeriod) * TicksPerSecond - MaxDeltaTime
    /\ Elites(game) = unit.elites

\* C25 witness: the first elite appeared before survivalTime 60 and a second
\* one has followed it.
SecondEliteAfterEarlyFirst ==
    /\ unit.elites = 2
    /\ unit.first < (EliteStart + ElitePeriod) * TicksPerSecond
    /\ unit.gap >= ElitePeriod * TicksPerSecond

-----------------------------------------------------------------------------
(* Two chests on the ground: the session from a state in which the player   *)
(* can collect two rewards within the 10 s of a speed burst.                *)

\* 95 s in: the waves and elites spawned so far are killed (31 minions, 2
\* elites), their orbs collected (level 2), and the chests spawned at 45 s
\* and 90 s are both still on the ground.
TwoChestsGame ==
    [InitGame EXCEPT
        !.survivalTime = 1900, !.enemySpawnTimer = 100, !.eliteSpawnTimer = 100,
        !.chestSpawnTimer = 100, !.killCount = 33, !.score = 520,
        !.player.level = 2, !.player.exp = 95 * ExpScale,
        !.chests = <<NewChest, NewChest>>]

InitBurst ==
    /\ game = TwoChestsGame
    /\ timers = <<>>
    /\ dom = InitDom
    /\ loops = 1
    /\ kin = KinInit
    /\ unit = NoUnit
    /\ ghost = [InitGhost EXCEPT !.deaths = game.killCount,
                                 !.sinceHit = InvincibleTime]

NextBurst ==
    \/ Frame
    \/ Idle
    \/ SpeedBurstExpires

SpecBurst == InitBurst /\ [][NextBurst]_vars

\* C21: for the 10 s that follow every speed_burst reward of the session
\* (its timer is still running) player.speedBuff is 1.5, also when an
\* earlier speed burst was active when it was collected.
SpeedBurstLasts ==
    \A i \in 1..Len(timers) :
        (timers[i].kind = "speed" /\ timers[i].session = ghost.session
         /\ timers[i].remaining > 0)
        => game.player.speedBuff = 15

-----------------------------------------------------------------------------
(* Unit level: Utils.circleCollision on pairs of circles *)

\* Utils.distance on integer pixel coordinates, rounded down; the comparison
\* with an integer is that of the exact square root.
Distance(x1, y1, x2, y2) == ISqrt((x2 - x1) * (x2 - x1) + (y2 - y1) * (y2 - y1))

\* Mutant of CircleCollision: the first radius is counted twice.
CircleCollisionFirstRadius(x1, y1, r1, x2, y2, r2) ==
    Distance(x1, y1, x2, y2) < r1 + r1

\* Utils.circleCollision
CircleCollision(x1, y1, r1, x2, y2, r2) ==
    Distance(x1, y1, x2, y2) < r1 + r2

\* Circles with the radii of an orb, a minion and the player, at distances
\* below, at and above the sums of their radii.
Circles == [x : {0 - 28, 0, 28, 35}, y : {0, 21}, r : {5, 15, 20}]

InitCollision ==
    /\ game = FreshGame
    /\ timers = <<>>
    /\ dom = InitDom
    /\ loops = 1
    /\ kin = KinInit
    /\ ghost = InitGhost
    /\ unit \in {[kind |-> "circles", a |-> a, b |-> b, tested |-> FALSE,
                  ab |-> FALSE, ba |-> FALSE] : a \in Circles, b \in Circles}

\* circleCollision(A, B) and circleCollision(B, A)
CollisionTest ==
    /\ ~unit.tested
    /\ unit' = [unit EXCEPT
                  !.tested = TRUE,
                  !.ab = CircleCollision(unit.a.x, unit.a.y, unit.a.r,
                                         unit.b.x, unit.b.y, unit.b.r),
                  !.ba = CircleCollision(unit.b.x, unit.b.y, unit.b.r,
                                         unit.a.x, unit.a.y, unit.a.r)]
    /\ UNCHANGED <<game, timers, dom, loops, kin, ghost>>

NextCollision == CollisionTest

SpecCollision == InitCollision /\ [][NextCollision]_vars

\* The squared distance of the centres and the squared sum of the radii.
CentresSq == (unit.b.x - unit.a.x) * (unit.b.x - unit.a.x)
             + (unit.b.y - unit.a.y) * (unit.b.y - unit.a.y)
RadiiSq == (unit.a.r + unit.b.r) * (unit.a.r + unit.b.r)

\* C17: circleCollision(A, B) = circleCollision(B, A), and it is true exactly
\* when the distance of the centres is strictly less than the sum of the radii.
CollisionSymmetric ==
    unit.tested => /\ unit.ab = unit.ba
                   /\ unit.ab <=> CentresSq < RadiiSq

\* C17 witness: two circles of different radii that touch (distance 35 =
\* 20 + 15) were tested and do not collide.
TouchingCirclesTested ==
    /\ unit.tested /\ ~unit.ab /\ ~unit.ba
    /\ unit.a.r # unit.b.r
    /\ CentresSq = RadiiSq

\* C23: boss attacks are gated by the cooldown: only a boss attacks,
\* performAttack sets attackCooldown to 5 s, and an attack that follows
\* another is at least 5 s of simulated time after it.
BossAttackGated ==
    [][(unit'.sinceAttack = 0 /\ (unit.sinceAttack > 0 \/ unit'.attacks # unit.attacks))
       => /\ unit.enemy.type = "boss"
          /\ unit'.enemy.attackCooldown = BossAttackInterval * TicksPerSecond
          /\ unit.attacks >= 1
                => unit.sinceAttack >= BossAttackInterval * TicksPerSecond]_vars

\* C23 witness: a living boss has attacked a second time.
BossAttackedTwice ==
    /\ unit.enemy.type = "boss" /\ ~unit.enemy.isDead
    /\ unit.attacks = 2 /\ unit.sinceAttack = 0

\* C31: an enemy's hp stays in [0, maxHp], a living enemy's hp is its
\* archetype hp less the damage received, and the enemy is dead exactly
\* when the damage received in total is at least its archetype hp.
EnemyDiesAtArchetypeHp ==
    /\ 0 <= unit.enemy.hp /\ unit.enemy.hp <= unit.enemy.maxHp
    /\ unit.enemy.maxHp = EnemyConfig(unit.enemy.type).hp * Cent
    /\ unit.enemy.isDead <=> unit.damageTaken >= EnemyConfig(unit.enemy.type).hp * Cent
    /\ ~unit.enemy.isDead => unit.enemy.hp = unit.enemy.maxHp - unit.damageTaken

\* C31 witness: a minion (hp 20) hit twice with 10 damage is at 0 hp and
\* dead; no hit was made after its death.
MinionDeadAfterTwoHits ==
    /\ unit.enemy.type = "minion"
    /\ unit.hits = 2 /\ unit.damageTaken = 20 * Cent
    /\ ~unit.afterDeathHits
    /\ unit.enemy.hp = 0 /\ unit.enemy.isDead

-----------------------------------------------------------------------------
(* Unit level: the boss's area attack, lines 908-919, with positions.  The  *)
(* boss and the player are on one horizontal line (y equal), so that        *)
(* Enemy.update moves the boss along x only; positions are in pixels.       *)

BossAttackRange == 200    \* dist < 200 in the callback; the radius of the warning ring
BossStep == 6             \* boss speed 120 px/s: pixels per tick
PlayerStep == 5           \* player speed 100 px/s: pixels per tick

Sign(n) == IF n > 0 THEN 1 ELSE IF n < 0 THEN 0 - 1 ELSE 0

\* Enemy.update, lines 454-462, with dy = 0: dx / dist is the sign of dx.
EnemyMoveX(x, playerX, dt) ==
    IF Distance(x, 0, playerX, 0) > 0
    THEN x + Sign(playerX - x) * BossStep * dt
    ELSE x

\* The boss's x when the player stands at the centre (x = 600): the distance
\* before the first frame is between 180 and 270.
BossStarts == {330, 350, 370, 390, 410, 420}

NoAttack == [remaining |-> 0 - 1, triggerX |-> 0]

InitBossAttack ==
    /\ game = FreshGame
    /\ timers = <<>>
    /\ dom = InitDom
    /\ loops = 1
    /\ kin = KinInit
    /\ ghost = InitGhost
    /\ unit \in {[kind |-> "bossAttack",
                  boss |-> [NewEnemy("boss") EXCEPT !.attackCooldown = c],
                  bossX |-> x, playerX |-> CenterX * Grid, player |-> NewPlayer,
                  pending |-> NoAttack,     \* the setTimeout of line 913
                  fired |-> FALSE,          \* its callback has run
                  firedTriggerX |-> 0,      \* the boss's x when it was set
                  firedPlayerX |-> 0,       \* the player's x when it ran
                  struck |-> FALSE]         \* the callback lowered the player's hp
                    : x \in BossStarts, c \in {0, 4}}

\* The boss after enemy.update and the attack test of one frame.
BossAfterFrame(en, dt) ==
    IF EnemyCanAttack(EnemyUpdate(en, dt))
    THEN EnemyPerformAttack(EnemyUpdate(en, dt))
    ELSE EnemyUpdate(en, dt)

\* One frame of dt ticks in which the player walks left, stays or walks right:
\* Player.update, then Enemy.update towards the player's new position, then
\* lines 909-919.
BossAttackFrame ==
    /\ ~unit.fired
    /\ unit.pending.remaining # 0
    /\ \E dt \in Elapsed : \E dir \in {0 - 1, 0, 1} :
         LET px == unit.playerX + dir * PlayerStep * dt
             bx == EnemyMoveX(unit.bossX, px, dt)
             attacks == EnemyCanAttack(EnemyUpdate(unit.boss, dt))
         IN  unit' = [unit EXCEPT
                        !.playerX = px,
                        !.bossX = bx,
                        !.boss = BossAfterFrame(unit.boss, dt),
                        !.pending =
                            IF attacks
                            THEN [remaining |-> BossAttackDelay, triggerX |-> bx]
                            ELSE IF @.remaining > 0
                            THEN [@ EXCEPT !.remaining = Max(0, @ - dt)]
                            ELSE @]
    /\ UNCHANGED <<game, timers, dom, loops, kin, ghost>>

\* The setTimeout callback, lines 913-918: the distance is taken to the
\* boss's position at the time of the callback (enemy.x, enemy.y).
BossAttackCallback ==
    /\ unit.pending.remaining = 0
    /\ unit' = [unit EXCEPT
                  !.pending = NoAttack,
                  !.fired = TRUE,
                  !.firedTriggerX = unit.pending.triggerX,
                  !.firedPlayerX = unit.playerX,
                  !.player = IF Distance(unit.playerX, 0, unit.bossX, 0) < BossAttackRange
                             THEN PlayerTakeDamage(@, BossAttackDamage) ELSE @,
                  !.struck = Distance(unit.playerX, 0, unit.bossX, 0) < BossAttackRange]
    /\ UNCHANGED <<game, timers, dom, loops, kin, ghost>>

NextBossAttack == BossAttackFrame \/ BossAttackCallback

SpecBossAttack == InitBossAttack /\ [][NextBossAttack]_vars

\* C22: the delayed boss attack damages the player only if, when the delay
\* elapses, the player is within 200 of the position the boss had when the
\* attack was triggered.
BossAttackUsesTriggerPosition ==
    (unit.fired /\ unit.struck)
    => Distance(unit.firedPlayerX, 0, unit.firedTriggerX, 0) < BossAttackRange

-----------------------------------------------------------------------------
(* Unit level: the chest timer and Game.spawnChest with positions (pixels). *)

ChestAttempts == 10       \* while (attempts < 10)
ChestMinDistance == 80    \* tooClose: distance < 80

\* Mutant of SpawnChestAttempt: the first candidate is taken whatever its distance.
SpawnChestAnywhere(cands, px, py, attempts) ==
    IF attempts >= ChestAttempts THEN 0 ELSE attempts + 1

\* Game.spawnChest, lines 1003-1017: the loop from the given number of failed
\* attempts on; cands[k] is the k-th random point.  The result is the index
\* of the point the chest is pushed at, 0 when every attempt was too close.
RECURSIVE SpawnChestAttempt(_, _, _, _)
SpawnChestAttempt(cands, px, py, attempts) ==
    IF attempts >= ChestAttempts THEN 0
    ELSE IF ~(Distance(cands[attempts + 1].x, cands[attempts + 1].y, px, py)
                < ChestMinDistance)
    THEN attempts + 1
    ELSE SpawnChestAttempt(cands, px, py, attempts + 1)

\* Two of the points spawnChest can draw, and three positions of the player:
\* at 80 and 60 from them, within 80 of both, and far from both.
ChestPoints == {[x |-> 648, y |-> 464], [x |-> 600, y |-> 460]}
ChestPlayers == {[x |-> 600, y |-> 400], [x |-> 640, y |-> 430], [x |-> 300, y |-> 400]}

InitChestSpawn ==
    /\ game \in {[InitGame EXCEPT !.chestSpawnTimer = t] : t \in {896, 898, 899}}
    /\ timers = <<>>
    /\ dom = InitDom
    /\ loops = 1
    /\ kin = KinInit
    /\ ghost = InitGhost
    /\ unit \in {[kind |-> "chestSpawn", cands |-> c, player |-> p,
                  fired |-> FALSE,      \* the timer has reached 45 s
                  spots |-> <<>>]       \* the points of the chests added
                    : c \in [1..ChestAttempts -> ChestPoints], p \in ChestPlayers}

\* Lines 953-957 of one update(dt), the random points being unit.cands.
ChestTimerFrame ==
    /\ ~unit.fired
    /\ \E dt \in Elapsed :
         /\ Commit(UpdateChestTimer(
                World, dt,
                SpawnChestAttempt(unit.cands, unit.player.x, unit.player.y, 0) # 0))
         /\ unit' = IF game.chestSpawnTimer + dt >= ChestPeriod * TicksPerSecond
                    THEN [unit EXCEPT
                            !.fired = TRUE,
                            !.spots =
                                IF SpawnChestAttempt(unit.cands, unit.player.x,
                                                     unit.player.y, 0) # 0
                                THEN Append(@, unit.cands[SpawnChestAttempt(
                                         unit.cands, unit.player.x, unit.player.y, 0)])
                                ELSE @]
                    ELSE unit
    /\ UNCHANGED <<loops, kin>>

NextChestSpawn == ChestTimerFrame

SpecChestSpawn == InitChestSpawn /\ [][NextChestSpawn]_vars

\* The squared distance of point c from the player of the unit.
PlayerDistSq(c) ==
    (c.x - unit.player.x) * (c.x - unit.player.x)
    + (c.y - unit.player.y) * (c.y - unit.player.y)

\* C26: a firing of the 45 s chest timer adds at most one chest, a chest
\* added is at distance >= 80 from the player, no chest is added when all 10
\* candidate points are within 80, and the timer is 0 after the firing in
\* either case; a frame in which the timer does not fire adds no chest.
ChestSpawnGuarded ==
    /\ Len(game.chests) = Len(unit.spots)
    /\ Len(game.chests) <= 1
    /\ \A k \in 1..Len(unit.spots) :
          PlayerDistSq(unit.spots[k]) >= ChestMinDistance * ChestMinDistance
    /\ unit.fired => game.chestSpawnTimer = 0
    /\ ~unit.fired => game.chests = <<>>
    /\ (unit.fired /\ \A k \in 1..ChestAttempts :
            PlayerDistSq(unit.cands[k]) < ChestMinDistance * ChestMinDistance)
          => game.chests = <<>>

\* C26 witness: the timer fired, nine points were too close and the chest
\* was put on the tenth, exactly 80 from the player.
ChestOnTenthPoint ==
    /\ unit.fired /\ Len(unit.spots) = 1
    /\ PlayerDistSq(unit.spots[1]) = ChestMinDistance * ChestMinDistance
    /\ \A k \in 1..(ChestAttempts - 1) :
          PlayerDistSq(unit.cands[k]) < ChestMinDistance * ChestMinDistance
    /\ game.chestSpawnTimer = 0

-----------------------------------------------------------------------------
(* Unit level: the countdowns of Player.update, lines 253-265 *)

MaxTimerHits == 2         \* successful hits per behaviour

InitPlayerTimers ==
    /\ game = FreshGame
    /\ timers = <<>>
    /\ dom = InitDom
    /\ loops = 1
    /\ kin = KinInit
    /\ ghost = InitGhost
    /\ unit = [kind |-> "playerTimers", player |-> NewPlayer, updated |-> FALSE]

\* player.update(deltaTime, ...) in a frame of 0, 0.05 or 0.1 s
PlayerTimersTick ==
    /\ \E dt \in 0..MaxDeltaTime :
         unit' = [unit EXCEPT !.player = PlayerUpdateTimers(@, dt),
                              !.updated = TRUE]
    /\ UNCHANGED <<game, timers, dom, loops, kin, ghost>>

\* player.takeDamage(5): a minion touches the player (line 889).
PlayerTimersHit ==
    /\ unit.player.hp > (PlayerStartHp - MaxTimerHits * EnemyConfig("minion").damage) * HpScale
    /\ unit' = [unit EXCEPT
                  !.player = PlayerTakeDamage(@, EnemyConfig("minion").damage),
                  !.updated = FALSE]
    /\ UNCHANGED <<game, timers, dom, loops, kin, ghost>>

\* The auto_collect reward of a chest (lines 1092-1094), taken when the buff
\* has run out.
PlayerTimersAutoCollect ==
    /\ unit.player.autoCollectBuff <= 0
    /\ unit' = [unit EXCEPT
                  !.player.autoCollectBuff = AutoCollectTime * TicksPerSecond,
                  !.updated = FALSE]
    /\ UNCHANGED <<game, timers, dom, loops, kin, ghost>>

NextPlayerTimers == PlayerTimersTick \/ PlayerTimersHit \/ PlayerTimersAutoCollect

SpecPlayerTimers == InitPlayerTimers /\ [][NextPlayerTimers]_vars

\* C27: the invincibility and auto-collect countdowns are floored at zero:
\* after every Player.update both are >= 0.
CountdownsFlooredAtZero ==
    unit.updated => unit.player.invincible >= 0 /\ unit.player.autoCollectBuff >= 0

-----------------------------------------------------------------------------
(* Unit level: Game.applySkill and Game.applyChestReward in any order *)

MaxPicks == 4             \* skills and rewards applied per behaviour

RECURSIVE ApplySkillTimes(_, _, _)
ApplySkillTimes(g, id, n) ==
    IF n = 0 THEN g ELSE ApplySkillTimes(ApplySkill(g, id), id, n - 1)

\* A session at level 30: 5 x add_weapon, 6 x radius_expand, 14 x speed_boost
\* and 4 x defense_up chosen so far, each stat one step below its cap.
VeteranGame ==
    ApplySkillTimes(
        ApplySkillTimes(
            ApplySkillTimes(
                ApplySkillTimes([InitGame EXCEPT !.player.level = 30],
                                "add_weapon", 5),
                "radius_expand", 6),
            "speed_boost", 14),
        "defense_up", 4)

InitPicks ==
    /\ game \in {FreshGame, VeteranGame}
    /\ timers = <<>>
    /\ dom = InitDom
    /\ loops = 1
    /\ kin = KinInit
    /\ ghost = InitGhost
    /\ unit = [kind |-> "picks", picks |-> 0]

\* this.applySkill(skill), line 1172
PickSkill ==
    /\ unit.picks < MaxPicks
    /\ \E id \in SkillIds : game' = ApplySkill(game, id)
    /\ unit' = [unit EXCEPT !.picks = @ + 1]
    /\ UNCHANGED <<timers, dom, loops, kin, ghost>>

\* this.applyChestReward(reward), line 940
PickReward ==
    /\ unit.picks < MaxPicks
    /\ \E reward \in ChestRewards : Commit(ApplyChestReward(World, reward))
    /\ unit' = [unit EXCEPT !.picks = @ + 1]
    /\ UNCHANGED <<loops, kin>>

NextPicks == PickSkill \/ PickReward

SpecPicks == InitPicks /\ [][NextPicks]_vars

\* C28: the documented caps hold under any sequence of skills and chest
\* rewards: 1 <= weaponCount <= 8, weaponRadius <= 150, speed <= 200 and
\* 0 <= defenseRate <= 0.5.
CapsHold ==
    /\ 1 <= game.player.weaponCount /\ game.player.weaponCount <= 8
    /\ game.player.weaponRadius <= 150
    /\ game.player.speed <= 200 * Cent
    /\ 0 <= game.player.defenseRate /\ game.player.defenseRate <= 5

\* C28 witness: four skills have brought all four stats to their caps; the
\* 15th speed_boost alone would have given 207.
AllStatsAtCap ==
    /\ unit.picks = MaxPicks
    /\ game.player.weaponCount = 8
    /\ game.player.weaponRadius = 150
    /\ game.player.speed = 200 * Cent
    /\ game.player.defenseRate = 5

-----------------------------------------------------------------------------
(* Unit level: the weapon orbit angle of Player.update, lines 249-251, in   *)
(* hundredths of a degree.                                                  *)

MaxRotateFaster == 16     \* rotate_faster skills per behaviour
MaxAngleFrames == 3       \* frames per behaviour
FullTurn == 360           \* degrees

\* Lines 250-251: currentAngle after a frame of dt ticks.
PlayerRotate(angle, rotateSpeed, dt) ==
    IF angle + (rotateSpeed * dt) \div TicksPerSecond >= FullTurn * Cent
    THEN angle + (rotateSpeed * dt) \div TicksPerSecond - FullTurn * Cent
    ELSE angle + (rotateSpeed * dt) \div TicksPerSecond

InitAngle ==
    /\ game = FreshGame
    /\ timers = <<>>
    /\ dom = InitDom
    /\ loops = 1
    /\ kin = KinInit
    /\ ghost = InitGhost
    /\ unit = [kind |-> "angle", currentAngle |-> 0, skills |-> 0, frames |-> 0]

\* this.applySkill(skill) for rotate_faster, lines 1188-1190
AngleRotateFaster ==
    /\ unit.skills < MaxRotateFaster
    /\ game' = ApplySkill(game, "rotate_faster")
    /\ unit' = [unit EXCEPT !.skills = @ + 1]
    /\ UNCHANGED <<timers, dom, loops, kin, ghost>>

\* player.update(deltaTime, ...) with no key held: the angle and the countdowns.
AngleFrame ==
    /\ unit.frames < MaxAngleFrames
    /\ \E dt \in 0..MaxDeltaTime :
         /\ game' = [game EXCEPT !.player = PlayerUpdateTimers(@, dt)]
         /\ unit' = [unit EXCEPT
                       !.currentAngle = PlayerRotate(@, game.player.rotateSpeed, dt),
                       !.frames = @ + 1]
    /\ UNCHANGED <<timers, dom, loops, kin, ghost>>

NextAngle == AngleRotateFaster \/ AngleFrame

SpecAngle == InitAngle /\ [][NextAngle]_vars

\* C29: the weapon orbit angle wraps at 360 degrees: after every
\* Player.update 0 <= currentAngle < 360, for every frame time up to 0.1 s
\* and every rotateSpeed reachable through rotate_faster.
AngleWraps ==
    0 <= unit.currentAngle /\ unit.currentAngle < FullTurn * Cent

-----------------------------------------------------------------------------
(* Unit level: Game.getRandomSkills and the automatic selection of          *)
(* showSkillSelection.                                                      *)

\* The catalog of getRandomSkills in the order of the source.
AllSkills ==
    <<"add_weapon", "damage_boost", "radius_expand", "rotate_faster", "hp_boost",
      "speed_boost", "defense_up", "emergency_heal", "exp_magnet">>

RECURSIVE Without(_, _)
Without(seq, set) ==
    IF seq = <<>> THEN <<>>
    ELSE IF Head(seq) \in set THEN Without(Tail(seq), set)
    ELSE <<Head(seq)>> \o Without(Tail(seq), set)

\* allSkills.sort(() => Math.random() - 0.5): results of the shuffle, the
\* permutations of the catalog that bring any three entries to the front
\* and leave the others in order.
Shuffles == {d \o Without(AllSkills, {d[1], d[2], d[3]}) : d \in AllSkillDraws}

\* Math.random() in tenths
Randoms == 0..9

\* Utils.randomInt with r the value of Math.random() in tenths
RandomInt(min, max, r) == (r * (max - min + 1)) \div 10 + min

\* Mutant of GetRandomSkills: the first entry is returned for every slot.
GetRandomSkillsRepeated(shuffled, count) == [k \in 1..count |-> shuffled[1]]

\* Game.getRandomSkills(count): shuffled.slice(0, count)
GetRandomSkills(shuffled, count) == SubSeq(shuffled, 1, count)

InitSkills ==
    /\ game = FreshGame
    /\ timers = <<>>
    /\ dom = InitDom
    /\ loops = 1
    /\ kin = KinInit
    /\ ghost = InitGhost
    /\ unit \in {[kind |-> "skills", shuffled |-> sh, offered |-> <<>>,
                  applied |-> "none"] : sh \in Shuffles}

\* const skills = this.getRandomSkills(3), line 1119
SkillsOffered ==
    /\ unit.offered = <<>>
    /\ unit' = [unit EXCEPT !.offered = GetRandomSkills(unit.shuffled, 3)]
    /\ UNCHANGED <<game, timers, dom, loops, kin, ghost>>

\* this.selectSkill(skills[Utils.randomInt(0, 2)]), line 1145
SkillAutoSelected ==
    /\ unit.offered # <<>>
    /\ unit.applied = "none"
    /\ \E r \in Randoms :
         /\ unit' = [unit EXCEPT !.applied = unit.offered[RandomInt(0, 2, r) + 1]]
         /\ game' = [ApplySkill(game, unit.offered[RandomInt(0, 2, r) + 1])
                        EXCEPT !.state = "playing"]
    /\ UNCHANGED <<timers, dom, loops, kin, ghost>>

NextSkills == SkillsOffered \/ SkillAutoSelected

SpecSkills == InitSkills /\ [][NextSkills]_vars

\* C30: the three skills offered at a level-up are pairwise distinct entries
\* of the 9-entry catalog, and the skill applied by the automatic selection
\* is one of the three.
OfferedSkillsDistinct ==
    /\ Cardinality(SkillIds) = 9
    /\ unit.offered # <<>>
          => /\ Len(unit.offered) = 3
             /\ Cardinality({unit.offered[k] : k \in 1..3}) = 3
             /\ \A k \in 1..3 : unit.offered[k] \in SkillIds
    /\ unit.applied # "none"
          => \E k \in 1..3 : unit.applied = unit.offered[k]

\* C30 witness: the automatic selection drew index 2 and applied the third
\* of the offered skills, speed_boost.
ThirdSkillAutoSelected ==
    /\ unit.offered # <<>>
    /\ unit.applied = unit.offered[3]
    /\ unit.applied = "speed_boost"
    /\ game.player.speed > NewPlayer.speed

====
